---------------------------- MODULE Spec2Model ----------------------------
(***************************************************************************)
(* Model of akka_cluster_http_management_exporter.go: main's startup, the  *)
(* Exporter with its mutex, its "up" gauge and its "current_members" gauge *)
(* vector, and the steps of Exporter.Collect as run by concurrent scrape   *)
(* requests against an upstream that answers each GET.                     *)
(***************************************************************************)
EXTENDS Integers, Sequences, FiniteSets, TLC

(* ------------------------------ bounds -------------------------------- *)

\* concurrent scrape requests (callers of Collect)
NumTriggers == 2
\* longest members array the upstream returns under Spec and SpecFixed
MaxLen == 1
\* longest members array the upstream returns under SpecAgg
MaxAggLen == 4

Triggers == 1..NumTriggers

(* --------------------------- program constants ------------------------ *)

\* fetchHTTP: resp.StatusCode >= 200 && resp.StatusCode < 300
StatusLo == 200
StatusHi == 300

\* the zero value of sync.RWMutex: nobody holds it
Unlocked == 0

\* the six label values exportJsonFields sets
Labels == {"Up", "Down", "Joining", "Leaving", "Exiting", "Removed"}

(* ------------------------------ inputs -------------------------------- *)

\* the -akka.scrape-uri values main is started with
URIs == {"http://localhost:19999/members", "https://example.com:19999/members",
         "ftp://example.com/members", "example.com/members", "://members"}

\* status codes the upstream answers with
StatusCodes == {199, 200, 299, 300}

\* status strings of the members under Spec and SpecFixed
SmallStatuses == {"Up", "Bogus"}
\* status strings of the members under SpecAgg
AggStatuses == Labels \cup {"Bogus", "up", ""}

SeqsUpTo(S, n) == UNION {[1..k -> S] : k \in 0..n}

\* one element of the JSON members array: its "status" field is a JSON
\* string (val), a JSON number, or missing
StringElems(S) == {[typ |-> "string", val |-> s] : s \in S}
NumberElems == {[typ |-> "number", val |-> ""]}
AbsentElems == {[typ |-> "absent", val |-> ""]}

\* a response body as JSON text: syntactically valid or not; the type of the
\* "selfNode" value; the "members" value: an array (elems), a string
\* ("badtype") or missing ("absent")
NoPayload == [syntax |-> FALSE, selfNode |-> "none", members |-> "none", elems |-> <<>>]
Malformed == [syntax |-> FALSE, selfNode |-> "n/a", members |-> "n/a", elems |-> <<>>]
ObjectPayloads(selfNodes, E, n) ==
    {[syntax |-> TRUE, selfNode |-> sn, members |-> "array", elems |-> es] :
        sn \in selfNodes, es \in SeqsUpTo(E, n)}
    \cup {[syntax |-> TRUE, selfNode |-> sn, members |-> k, elems |-> <<>>] :
        sn \in selfNodes, k \in {"absent", "badtype"}}
Payloads == {Malformed}
            \cup ObjectPayloads({"string", "number"},
                                StringElems(SmallStatuses) \cup NumberElems, MaxLen)
AggPayloads == {p \in ObjectPayloads({"string"}, StringElems(AggStatuses), MaxAggLen) :
                   p.members = "array"}
               \cup {p \in ObjectPayloads({"string"}, AbsentElems, 1) : p.members # "badtype"}

\* what one GET meets: a transport error, or a response with a status code
\* whose body either reads to the end (payload) or fails while being read
NoResp == [net |-> "none", status |-> 0, read |-> "none", payload |-> NoPayload]
TransportError == [net |-> "error", status |-> 0, read |-> "none", payload |-> NoPayload]
ResponsesOver(P) ==
    {TransportError}
    \cup {[net |-> "ok", status |-> s, read |-> "none", payload |-> NoPayload] :
            s \in {s2 \in StatusCodes : ~(s2 >= StatusLo /\ s2 < StatusHi)}}
    \cup {[net |-> "ok", status |-> s, read |-> "error", payload |-> NoPayload] :
            s \in {s2 \in StatusCodes : s2 >= StatusLo /\ s2 < StatusHi}}
    \cup {[net |-> "ok", status |-> s, read |-> "ok", payload |-> p] :
            s \in {s2 \in StatusCodes : s2 >= StatusLo /\ s2 < StatusHi}, p \in P}
Responses == ResponsesOver(Payloads)
AggResponses == {r \in ResponsesOver(AggPayloads) : r.read = "ok" /\ r.status = StatusLo}

(* ------------------------------- state -------------------------------- *)

\* the Exporters one process can hold: the one main constructs, and another
\* one constructed with NewExporter in the same process
ExporterIds == {1, 2}

\* a trigger that is in no Collect call
NoExporter == 0

VARIABLES
    uri,        \* the configured scrape URI
    mainpc,     \* main's position
    upstream,   \* the responses the upstream may give to a GET
    exporters,  \* the Exporters constructed so far
    mutex,      \* e.mutex of each Exporter: Unlocked, or the trigger holding it
    up,         \* value of the gauge e.up of each Exporter
    vec,        \* children of the package's one gauge vector: label -> value
    pc,         \* each trigger's position in Collect
    target,     \* the Exporter whose Collect the trigger runs
    resp,       \* what the trigger's GET met in its current cycle
    err,        \* scrape's err after e.fetch()
    body,       \* the response stream: "none", "open", "closed"
    closes,     \* how often the response stream was closed
    bytes,      \* what ioutil.ReadAll returned
    chUp,       \* values of e.up when it was sent on the trigger's channel
    chSamples,  \* status samples sent on the trigger's channel
    readUp,     \* what the channel's consumer read from the e.up it received
    failed,     \* what failed in the trigger's cycle: "", "fetch", "read", "decode"
    log         \* the steps the trigger's Collect call has performed

vars == <<uri, mainpc, upstream, exporters, mutex, up, vec, pc, target, resp,
          err, body, closes, bytes, chUp, chSamples, readUp, failed, log>>

\* what no step of a trigger changes
envVars == <<uri, mainpc, upstream, exporters>>

(* ------------------------- library behaviour -------------------------- *)

\* url.Parse as NewExporter uses it: the error and the Scheme of the result
urlParse(u) ==
    CASE u = "http://localhost:19999/members" -> [err |-> FALSE, Scheme |-> "http"]
      [] u = "https://example.com:19999/members" -> [err |-> FALSE, Scheme |-> "https"]
      [] u = "ftp://example.com/members" -> [err |-> FALSE, Scheme |-> "ftp"]
      [] u = "example.com/members" -> [err |-> FALSE, Scheme |-> ""]
      [] OTHER -> [err |-> TRUE, Scheme |-> ""]

\* the gauge vector with no children: GaugeVec.Reset deletes every child
NoChildren == [l \in {} |-> 0]

\* metric.WithLabelValues(l).Set(x): creates the child when it is missing
WithLabelValuesSet(v, l, x) ==
    [k \in (DOMAIN v) \cup {l} |-> IF k = l THEN x ELSE v[k]]

\* GaugeVec.Collect: one sample per existing child
Samples(v) == {[status |-> l, value |-> v[l]] : l \in DOMAIN v}

\* json.Unmarshal(b, &m) into a zero Cluster: a syntax error is found before
\* anything is stored; a value of the wrong type is skipped, the rest is
\* decoded, and the first such error is returned. Members is m.Members as
\* the sequence of its Status strings.
ElemStatus(e) == IF e.typ = "string" THEN e.val ELSE ""
Unmarshal(p) ==
    IF ~p.syntax THEN [err |-> TRUE, Members |-> <<>>]
    ELSE [err |-> \/ p.selfNode # "string"
                  \/ p.members = "badtype"
                  \/ \E i \in DOMAIN p.elems : p.elems[i].typ = "number",
          Members |-> IF p.members = "array"
                        THEN [i \in DOMAIN p.elems |-> ElemStatus(p.elems[i])]
                        ELSE <<>>]

(* ---------------------------- the program ----------------------------- *)

NoErr == [kind |-> "nil", code |-> 0]

\* mutant of fetchHTTP: a non-2xx response is returned without closing its body
fetchHTTP_NoClose(r) ==
    IF r.net = "error"
      THEN [body |-> "none", err |-> [kind |-> "transport", code |-> 0]]
      ELSE IF ~(r.status >= StatusLo /\ r.status < StatusHi)
        THEN [body |-> "open", err |-> [kind |-> "status", code |-> r.status]]
        ELSE [body |-> "open", err |-> NoErr]

\* mutant of fetchHTTP: status 300 passes the range check
fetchHTTP_Inclusive(r) ==
    IF r.net = "error"
      THEN [body |-> "none", err |-> [kind |-> "transport", code |-> 0]]
      ELSE IF ~(r.status >= StatusLo /\ r.status <= StatusHi)
        THEN [body |-> "closed", err |-> [kind |-> "status", code |-> r.status]]
        ELSE [body |-> "open", err |-> NoErr]

\* the closure fetchHTTP returns, on what the GET met: the stream's state and err
fetchHTTP(r) ==
    IF r.net = "error"
      THEN [body |-> "none", err |-> [kind |-> "transport", code |-> 0]]
      ELSE IF ~(r.status >= StatusLo /\ r.status < StatusHi)
        THEN [body |-> "closed", err |-> [kind |-> "status", code |-> r.status]]
        ELSE [body |-> "open", err |-> NoErr]

\* the counting loop of exportJsonFields
ZeroCounts == [joining |-> 0, up |-> 0, leaving |-> 0, exiting |-> 0,
               removed |-> 0, down |-> 0]
RECURSIVE CountLoop(_, _)
CountLoop(members, c) ==
    IF members = <<>> THEN c
    ELSE LET n == Head(members) IN
         CountLoop(Tail(members),
            CASE n = "Up" -> [c EXCEPT !.up = @ + 1]
              [] n = "Down" -> [c EXCEPT !.down = @ + 1]
              [] n = "Joining" -> [c EXCEPT !.joining = @ + 1]
              [] n = "Leaving" -> [c EXCEPT !.leaving = @ + 1]
              [] n = "Exiting" -> [c EXCEPT !.exiting = @ + 1]
              [] n = "Removed" -> [c EXCEPT !.removed = @ + 1]
              [] OTHER -> c)

\* mutant of SetAll: a label is set only when its count is not zero
SetIfPositive(v, l, x) == IF x > 0 THEN WithLabelValuesSet(v, l, x) ELSE v
SetAll_SkipZero(v, c) ==
    LET v1 == SetIfPositive(v, "Up", c.up)
        v2 == SetIfPositive(v1, "Down", c.down)
        v3 == SetIfPositive(v2, "Joining", c.joining)
        v4 == SetIfPositive(v3, "Leaving", c.leaving)
        v5 == SetIfPositive(v4, "Exiting", c.exiting)
    IN  SetIfPositive(v5, "Removed", c.removed)

\* the six Set calls of exportJsonFields on the one vector of serverMetrics
SetAll(v, c) ==
    LET v1 == WithLabelValuesSet(v, "Up", c.up)
        v2 == WithLabelValuesSet(v1, "Down", c.down)
        v3 == WithLabelValuesSet(v2, "Joining", c.joining)
        v4 == WithLabelValuesSet(v3, "Leaving", c.leaving)
        v5 == WithLabelValuesSet(v4, "Exiting", c.exiting)
    IN  WithLabelValuesSet(v5, "Removed", c.removed)

\* mutant of exportJsonFields: the loop stops one member early
exportJsonFields_StopEarly(v, members) ==
    SetAll(v, CountLoop(IF members = <<>> THEN members
                        ELSE SubSeq(members, 1, Len(members) - 1), ZeroCounts))

\* mutant of exportJsonFields: the status is matched ignoring case
exportJsonFields_FoldCase(v, members) ==
    SetAll(v, CountLoop([i \in DOMAIN members |->
                           IF members[i] = "up" THEN "Up" ELSE members[i]],
                        ZeroCounts))

exportJsonFields(v, members) == SetAll(v, CountLoop(members, ZeroCounts))

\* mutant of NewExporter: the switch on u.Scheme has no default case
NewExporter_AnyScheme(u) == ~urlParse(u).err

\* NewExporter's result: an error (FALSE), or an Exporter (TRUE)
NewExporter(u) ==
    LET p == urlParse(u) IN
    IF p.err THEN FALSE
    ELSE IF p.Scheme \in {"http", "https"} THEN TRUE ELSE FALSE

InitProgram ==
    /\ mutex = [e \in ExporterIds |-> Unlocked]
    /\ up = [e \in ExporterIds |-> 0]
    /\ vec = NoChildren
    /\ pc = [t \in Triggers |-> "idle"]
    /\ target = [t \in Triggers |-> NoExporter]
    /\ resp = [t \in Triggers |-> NoResp]
    /\ err = [t \in Triggers |-> NoErr]
    /\ body = [t \in Triggers |-> "none"]
    /\ closes = [t \in Triggers |-> 0]
    /\ bytes = [t \in Triggers |-> NoPayload]
    /\ chUp = [t \in Triggers |-> <<>>]
    /\ chSamples = [t \in Triggers |-> {}]
    /\ readUp = [t \in Triggers |-> <<>>]
    /\ failed = [t \in Triggers |-> ""]
    /\ log = [t \in Triggers |-> <<>>]

InitMain ==
    /\ mainpc = "NewExporter"
    /\ exporters = {}
    /\ InitProgram

Init ==
    /\ uri \in URIs
    /\ upstream = Responses
    /\ InitMain

\* main: exporter, err := NewExporter(...); log.Fatal(err) on error
MainNewExporter ==
    /\ mainpc = "NewExporter"
    /\ IF NewExporter(uri)
         THEN mainpc' = "MustRegister" /\ exporters' = {1}
         ELSE mainpc' = "fatal" /\ exporters' = exporters
    /\ UNCHANGED <<uri, upstream, mutex, up, vec, pc, target, resp, err, body,
                   closes, bytes, chUp, chSamples, readUp, failed, log>>

\* main: prometheus.MustRegister(exporter)
MainRegister ==
    /\ mainpc = "MustRegister"
    /\ mainpc' = "ListenAndServe"
    /\ UNCHANGED <<uri, upstream, exporters, mutex, up, vec, pc, target, resp,
                   err, body, closes, bytes, chUp, chSamples, readUp, failed, log>>

\* main: http.Handle(...); http.ListenAndServe(...)
MainListen ==
    /\ mainpc = "ListenAndServe"
    /\ mainpc' = "serving"
    /\ UNCHANGED <<uri, upstream, exporters, mutex, up, vec, pc, target, resp,
                   err, body, closes, bytes, chUp, chSamples, readUp, failed, log>>

\* a scrape request arrives and its worker calls e.Collect with a new channel
Request(t) ==
    /\ mainpc = "serving"
    /\ pc[t] = "idle"
    /\ \E e \in exporters : target' = [target EXCEPT ![t] = e]
    /\ pc' = [pc EXCEPT ![t] = "Lock"]
    /\ UNCHANGED <<envVars, mutex, up, vec, resp, err, body, closes, bytes,
                   chUp, chSamples, readUp, failed, log>>

\* mutant of Lock: the lock is taken without waiting for its holder
Lock_NoWait(t) ==
    /\ pc[t] = "Lock"
    /\ mutex' = [mutex EXCEPT ![target[t]] = t]
    /\ pc' = [pc EXCEPT ![t] = "resetMetrics"]
    /\ log' = [log EXCEPT ![t] = Append(@, "Lock")]
    /\ UNCHANGED <<envVars, up, vec, target, resp, err, body, closes, bytes,
                   chUp, chSamples, readUp, failed>>

\* Collect: e.mutex.Lock()
Lock(t) ==
    /\ pc[t] = "Lock"
    /\ mutex[target[t]] = Unlocked
    /\ mutex' = [mutex EXCEPT ![target[t]] = t]
    /\ pc' = [pc EXCEPT ![t] = "resetMetrics"]
    /\ log' = [log EXCEPT ![t] = Append(@, "Lock")]
    /\ UNCHANGED <<envVars, up, vec, target, resp, err, body, closes, bytes,
                   chUp, chSamples, readUp, failed>>

\* mutant of ResetMetrics: the vector is left as the last cycle set it
ResetMetrics_Skip(t) ==
    /\ pc[t] = "resetMetrics"
    /\ pc' = [pc EXCEPT ![t] = "fetch"]
    /\ log' = [log EXCEPT ![t] = Append(@, "resetMetrics")]
    /\ UNCHANGED <<envVars, mutex, up, vec, target, resp, err, body, closes,
                   bytes, chUp, chSamples, readUp, failed>>

\* Collect: e.resetMetrics()
ResetMetrics(t) ==
    /\ pc[t] = "resetMetrics"
    /\ vec' = NoChildren
    /\ pc' = [pc EXCEPT ![t] = "fetch"]
    /\ log' = [log EXCEPT ![t] = Append(@, "resetMetrics")]
    /\ UNCHANGED <<envVars, mutex, up, target, resp, err, body, closes, bytes,
                   chUp, chSamples, readUp, failed>>

\* scrape: body, err := e.fetch()
Fetch(t) ==
    /\ pc[t] = "fetch"
    /\ \E r \in upstream :
         /\ resp' = [resp EXCEPT ![t] = r]
         /\ err' = [err EXCEPT ![t] = fetchHTTP(r).err]
         /\ body' = [body EXCEPT ![t] = fetchHTTP(r).body]
         /\ closes' = [closes EXCEPT ![t] = IF fetchHTTP(r).body = "closed"
                                              THEN @ + 1 ELSE @]
         /\ failed' = [failed EXCEPT ![t] = IF fetchHTTP(r).err # NoErr
                                              THEN "fetch" ELSE @]
    /\ pc' = [pc EXCEPT ![t] = "setUp"]
    /\ log' = [log EXCEPT ![t] = Append(@, "fetch")]
    /\ UNCHANGED <<envVars, mutex, up, vec, target, bytes, chUp, chSamples,
                   readUp>>

\* mutant of SetUp: a failed fetch is tried again
SetUp_Retry(t) ==
    /\ pc[t] = "setUp"
    /\ IF err[t] # NoErr
         THEN /\ up' = [up EXCEPT ![target[t]] = 0]
              /\ pc' = [pc EXCEPT ![t] = "fetch"]
              /\ log' = [log EXCEPT ![t] = Append(@, "up.Set(0)")]
         ELSE /\ up' = [up EXCEPT ![target[t]] = 1]
              /\ pc' = [pc EXCEPT ![t] = "ReadAll"]
              /\ log' = [log EXCEPT ![t] = Append(@, "up.Set(1)")]
    /\ UNCHANGED <<envVars, mutex, vec, target, resp, err, body, closes, bytes,
                   chUp, chSamples, readUp, failed>>

\* mutant of SetUp: a failed fetch leaves the gauge as it was
SetUp_KeepOnError(t) ==
    /\ pc[t] = "setUp"
    /\ IF err[t] # NoErr
         THEN /\ up' = up
              /\ pc' = [pc EXCEPT ![t] = "sendUp"]
              /\ log' = [log EXCEPT ![t] = Append(@, "up.Set(0)")]
         ELSE /\ up' = [up EXCEPT ![target[t]] = 1]
              /\ pc' = [pc EXCEPT ![t] = "ReadAll"]
              /\ log' = [log EXCEPT ![t] = Append(@, "up.Set(1)")]
    /\ UNCHANGED <<envVars, mutex, vec, target, resp, err, body, closes, bytes,
                   chUp, chSamples, readUp, failed>>

\* scrape: if err != nil { e.up.Set(0); return }; defer body.Close(); e.up.Set(1)
SetUp(t) ==
    /\ pc[t] = "setUp"
    /\ IF err[t] # NoErr
         THEN /\ up' = [up EXCEPT ![target[t]] = 0]
              /\ pc' = [pc EXCEPT ![t] = "sendUp"]
              /\ log' = [log EXCEPT ![t] = Append(@, "up.Set(0)")]
         ELSE /\ up' = [up EXCEPT ![target[t]] = 1]
              /\ pc' = [pc EXCEPT ![t] = "ReadAll"]
              /\ log' = [log EXCEPT ![t] = Append(@, "up.Set(1)")]
    /\ UNCHANGED <<envVars, mutex, vec, target, resp, err, body, closes, bytes,
                   chUp, chSamples, readUp, failed>>

\* mutant of ReadAll: the error of ioutil.ReadAll is ignored
ReadAll_IgnoreError(t) ==
    /\ pc[t] = "ReadAll"
    /\ bytes' = [bytes EXCEPT ![t] = resp[t].payload]
    /\ pc' = [pc EXCEPT ![t] = "Unmarshal"]
    /\ failed' = [failed EXCEPT ![t] = IF resp[t].read = "ok" THEN @ ELSE "read"]
    /\ log' = [log EXCEPT ![t] = Append(@, "ReadAll")]
    /\ UNCHANGED <<envVars, mutex, up, vec, target, resp, err, body, closes,
                   chUp, chSamples, readUp>>

\* scrape: if b, err := ioutil.ReadAll(body); err == nil { ... }
ReadAll(t) ==
    /\ pc[t] = "ReadAll"
    /\ IF resp[t].read = "ok"
         THEN /\ bytes' = [bytes EXCEPT ![t] = resp[t].payload]
              /\ pc' = [pc EXCEPT ![t] = "Unmarshal"]
              /\ failed' = failed
         ELSE /\ bytes' = bytes
              /\ pc' = [pc EXCEPT ![t] = "Close"]
              /\ failed' = [failed EXCEPT ![t] = "read"]
    /\ log' = [log EXCEPT ![t] = Append(@, "ReadAll")]
    /\ UNCHANGED <<envVars, mutex, up, vec, target, resp, err, body, closes,
                   chUp, chSamples, readUp>>

\* scrape: err = json.Unmarshal(b, &m); if err != nil { fmt.Println(...) };
\*         e.exportJsonFields(e.serverMetrics, m.Members)
Decode(t) ==
    /\ pc[t] = "Unmarshal"
    /\ LET m == Unmarshal(bytes[t]) IN
         /\ vec' = exportJsonFields(vec, m.Members)
         /\ failed' = [failed EXCEPT ![t] = IF m.err THEN "decode" ELSE @]
    /\ pc' = [pc EXCEPT ![t] = "Close"]
    /\ log' = [log EXCEPT ![t] = Append(@, "exportJsonFields")]
    /\ UNCHANGED <<envVars, mutex, up, target, resp, err, body, closes, bytes,
                   chUp, chSamples, readUp>>

\* scrape returns: the deferred body.Close(); b and m go out of scope
Close(t) ==
    /\ pc[t] = "Close"
    /\ body' = [body EXCEPT ![t] = "closed"]
    /\ closes' = [closes EXCEPT ![t] = @ + 1]
    /\ bytes' = [bytes EXCEPT ![t] = NoPayload]
    /\ pc' = [pc EXCEPT ![t] = "sendUp"]
    /\ log' = [log EXCEPT ![t] = Append(@, "Close")]
    /\ UNCHANGED <<envVars, mutex, up, vec, target, resp, err, chUp, chSamples,
                   readUp, failed>>

\* Collect: ch <- e.up
SendUp(t) ==
    /\ pc[t] = "sendUp"
    /\ chUp' = [chUp EXCEPT ![t] = Append(@, up[target[t]])]
    /\ pc' = [pc EXCEPT ![t] = "collectMetrics"]
    /\ log' = [log EXCEPT ![t] = Append(@, "ch <- e.up")]
    /\ UNCHANGED <<envVars, mutex, up, vec, target, resp, err, body, closes,
                   bytes, chSamples, readUp, failed>>

\* Collect: e.collectMetrics(ch)
CollectMetrics(t) ==
    /\ pc[t] = "collectMetrics"
    /\ chSamples' = [chSamples EXCEPT ![t] = @ \cup Samples(vec)]
    /\ pc' = [pc EXCEPT ![t] = "Unlock"]
    /\ log' = [log EXCEPT ![t] = Append(@, "collectMetrics")]
    /\ UNCHANGED <<envVars, mutex, up, vec, target, resp, err, body, closes,
                   bytes, chUp, readUp, failed>>

\* mutant of Unlock: the lock is released only when nothing failed
Unlock_OnSuccessOnly(t) ==
    /\ pc[t] = "Unlock"
    /\ mutex' = IF failed[t] = "" THEN [mutex EXCEPT ![target[t]] = Unlocked]
                ELSE mutex
    /\ pc' = [pc EXCEPT ![t] = "done"]
    /\ resp' = [resp EXCEPT ![t] = NoResp]
    /\ err' = [err EXCEPT ![t] = NoErr]
    /\ log' = [log EXCEPT ![t] = Append(@, "Unlock")]
    /\ UNCHANGED <<envVars, up, vec, target, body, closes, bytes, chUp,
                   chSamples, readUp, failed>>

\* Collect returns: the deferred e.mutex.Unlock(); the cycle is over
Unlock(t) ==
    /\ pc[t] = "Unlock"
    /\ mutex' = [mutex EXCEPT ![target[t]] = Unlocked]
    /\ pc' = [pc EXCEPT ![t] = "done"]
    /\ resp' = [resp EXCEPT ![t] = NoResp]
    /\ err' = [err EXCEPT ![t] = NoErr]
    /\ log' = [log EXCEPT ![t] = Append(@, "Unlock")]
    /\ UNCHANGED <<envVars, up, vec, target, body, closes, bytes, chUp,
                   chSamples, readUp, failed>>

\* the request has been answered; the worker and its channel are gone
Return(t) ==
    /\ pc[t] = "done"
    /\ pc' = [pc EXCEPT ![t] = "idle"]
    /\ target' = [target EXCEPT ![t] = NoExporter]
    /\ body' = [body EXCEPT ![t] = "none"]
    /\ closes' = [closes EXCEPT ![t] = 0]
    /\ chUp' = [chUp EXCEPT ![t] = <<>>]
    /\ chSamples' = [chSamples EXCEPT ![t] = {}]
    /\ readUp' = [readUp EXCEPT ![t] = <<>>]
    /\ failed' = [failed EXCEPT ![t] = ""]
    /\ log' = [log EXCEPT ![t] = <<>>]
    /\ UNCHANGED <<envVars, mutex, up, vec, resp, err, bytes>>

Main == MainNewExporter \/ MainRegister \/ MainListen

\* the steps of one Collect call, from Lock to the deferred Unlock
Cycle(t) ==
    \/ Lock(t) \/ ResetMetrics(t) \/ Fetch(t) \/ SetUp(t)
    \/ ReadAll(t) \/ Decode(t) \/ Close(t) \/ SendUp(t) \/ CollectMetrics(t)
    \/ Unlock(t)

Step(t) == Request(t) \/ Cycle(t) \/ Return(t)

Next == Main \/ \E t \in Triggers : Step(t)

Spec == Init /\ [][Next]_vars

\* every fetch of the run meets the same response
InitFixed ==
    /\ uri \in URIs
    /\ upstream \in {{r} : r \in Responses}
    /\ InitMain

SpecFixed == InitFixed /\ [][Next]_vars

\* one caller, an upstream that serves well-formed snapshots
InitAgg ==
    /\ uri = "http://localhost:19999/members"
    /\ upstream \in {{r} : r \in AggResponses}
    /\ InitMain

NextAgg == Main \/ Step(1)

SpecAgg == InitAgg /\ [][NextAgg]_vars

(* ------------------------------ claims -------------------------------- *)

\* positions between the acquisition of the lock and its release
Locked == {"resetMetrics", "fetch", "setUp", "ReadAll", "Unmarshal", "Close",
           "sendUp", "collectMetrics", "Unlock"}
InCycle(t) == pc[t] \in Locked

\* the cycle of t has sent everything it sends and still holds the lock
Published(t) == pc[t] = "Unlock"

StatusesOf(samples) == {s.status : s \in samples}
ValueOf(samples, l) == (CHOOSE s \in samples : s.status = l).value
ZeroSamples == {[status |-> l, value |-> 0] : l \in Labels}

\* C1: at most one trigger is between Lock and Unlock at any time, and it is
\* the holder of the mutex; nobody else is anywhere inside a cycle.
C1_MutualExclusion ==
    /\ \A t, u \in Triggers : InCycle(t) /\ InCycle(u) => t = u
    /\ \A t \in Triggers : InCycle(t) <=> (\E e \in exporters : mutex[e] = t)

\* C1 witness: one trigger is in the middle of its cycle (counters reset,
\* body being decoded) while another one waits for the lock.
C1_Witness ==
    \E t, u \in Triggers :
        /\ t # u
        /\ pc[t] = "Unmarshal"
        /\ pc[u] = "Lock"

\* C2 as stated: every published cycle, whatever its outcome, carries a
\* sample for each of the six labels.
C2_Original ==
    \A t \in Triggers : Published(t) => StatusesOf(chSamples[t]) = Labels

\* C2 amended: a published cycle carries one sample for each of the six
\* labels (zero counts included) when its body was read, and no status
\* sample at all when the fetch or the reading of the body failed.
C2_SixLabelsWhenRead ==
    \A t \in Triggers :
        Published(t) =>
            IF failed[t] \in {"fetch", "read"}
              THEN chSamples[t] = {}
              ELSE /\ StatusesOf(chSamples[t]) = Labels
                   /\ Cardinality(chSamples[t]) = Cardinality(Labels)

\* C2 witness: a cycle that decoded its body published all six labels, one
\* of them with a count of zero and one with a count above zero.
C2_Witness ==
    \E t \in Triggers :
        /\ Published(t)
        /\ failed[t] = ""
        /\ StatusesOf(chSamples[t]) = Labels
        /\ \E s \in chSamples[t] : s.value = 0
        /\ \E s \in chSamples[t] : s.value > 0

\* C3 as stated: a cycle whose fetch fails publishes akka_up = 0 and a
\* sample of value 0 for each of the six labels.
C3_Original ==
    \A t \in Triggers :
        Published(t) /\ failed[t] = "fetch" =>
            /\ chUp[t] = <<0>>
            /\ chSamples[t] = ZeroSamples

\* C3 amended: a cycle whose fetch fails publishes akka_up = 0 and no status
\* sample at all, whatever earlier cycles published.
C3_FetchFailurePublishesNoCounts ==
    \A t \in Triggers :
        Published(t) /\ failed[t] = "fetch" =>
            /\ chUp[t] = <<0>>
            /\ chSamples[t] = {}

\* C3 witness: a cycle whose fetch failed has published, after another
\* trigger's cycle published akka_up = 1 and a count above zero.
C3_Witness ==
    \E t, u \in Triggers :
        /\ Published(t)
        /\ failed[t] = "fetch"
        /\ pc[u] = "done"
        /\ chUp[u] = <<1>>
        /\ \E s \in chSamples[u] : s.value > 0

\* C4 as stated: a cycle whose fetch succeeded and whose body json.Unmarshal
\* rejected publishes akka_up = 1 and a count of zero for all six labels.
C4_Original ==
    \A t \in Triggers :
        Published(t) /\ failed[t] = "decode" =>
            /\ chUp[t] = <<1>>
            /\ chSamples[t] = ZeroSamples

\* the Status strings of the members array the upstream sent to t
Snapshot(t) ==
    LET es == resp[t].payload.elems IN [i \in DOMAIN es |-> es[i].val]
Occurrences(M, l) == Cardinality({i \in DOMAIN M : M[i] = l})
SumOfCounts(samples) ==
    ValueOf(samples, "Up") + ValueOf(samples, "Down") + ValueOf(samples, "Joining")
    + ValueOf(samples, "Leaving") + ValueOf(samples, "Exiting")
    + ValueOf(samples, "Removed")

\* C5: for a fetched and decoded snapshot, the count published for each of
\* the six statuses is the number of members with exactly that status, and
\* the six counts add up to the number of members with a known status.
C5_CountsMatchMembers ==
    \A t \in Triggers :
        Published(t) /\ failed[t] = "" =>
            /\ StatusesOf(chSamples[t]) = Labels
            /\ \A l \in Labels :
                 ValueOf(chSamples[t], l) = Occurrences(Snapshot(t), l)
            /\ SumOfCounts(chSamples[t])
                 = Cardinality({i \in DOMAIN Snapshot(t) : Snapshot(t)[i] \in Labels})

\* C5 witness: a published snapshot with a status that occurs twice, a
\* second known status and a member of unknown status.
C5_Witness ==
    \E t \in Triggers :
        /\ Published(t)
        /\ failed[t] = ""
        /\ \E l, k \in Labels :
             /\ l # k
             /\ ValueOf(chSamples[t], l) = 2
             /\ ValueOf(chSamples[t], k) = 1
        /\ \E i \in DOMAIN Snapshot(t) : Snapshot(t)[i] \notin Labels

\* C6: statuses are matched exactly and case-sensitively: members whose
\* status is not one of the six values ("Bogus", "up", "") count nowhere and
\* raise no error, and Up, Up, Down, Bogus publishes Up=2, Down=1, the other
\* four 0, and up=1.
C6_ExactMatch ==
    \A t \in Triggers :
        Published(t) /\ failed[t] = "" =>
            LET M == Snapshot(t) IN
            /\ chUp[t] = <<1>>
            /\ SumOfCounts(chSamples[t]) + Occurrences(M, "Bogus")
                 + Occurrences(M, "up") + Occurrences(M, "") = Len(M)
            /\ (\A i \in DOMAIN M : M[i] \notin Labels) => chSamples[t] = ZeroSamples
            /\ M = <<"Up", "Up", "Down", "Bogus">> =>
                 chSamples[t] = {[status |-> "Up", value |-> 2],
                                 [status |-> "Down", value |-> 1],
                                 [status |-> "Joining", value |-> 0],
                                 [status |-> "Leaving", value |-> 0],
                                 [status |-> "Exiting", value |-> 0],
                                 [status |-> "Removed", value |-> 0]}

\* C6 witness: the cycle that fetched Up, Up, Down, Bogus has published.
C6_Witness ==
    \E t \in Triggers :
        /\ Published(t)
        /\ failed[t] = ""
        /\ Snapshot(t) = <<"Up", "Up", "Down", "Bogus">>
        /\ ValueOf(chSamples[t], "Up") = 2

\* C7 as stated: on every failure path the trigger completes having sent
\* the liveness gauge and released the lock, and the failure shows only as
\* liveness 0 or as zero counts.
C7_Original ==
    \A t \in Triggers :
        pc[t] = "done" /\ failed[t] # "" =>
            /\ Len(chUp[t]) = 1
            /\ \A e \in ExporterIds : mutex[e] # t
            /\ \/ chUp[t] = <<0>>
               \/ \A s \in chSamples[t] : s.value = 0

\* what one cycle alone publishes when its GET meets r
SerialResult(r) ==
    IF fetchHTTP(r).err # NoErr THEN [up |-> <<0>>, samples |-> {}]
    ELSE IF r.read # "ok" THEN [up |-> <<1>>, samples |-> {}]
    ELSE [up |-> <<1>>,
          samples |-> Samples(exportJsonFields(NoChildren,
                                               Unmarshal(r.payload).Members))]

Finished(t) == pc[t] \in {"Unlock", "done"}

\* C8: against an upstream that answers every fetch alike, all triggers'
\* published results are identical, and each is the complete result of one
\* cycle on that answer (nothing partial, nothing mixed).
C8_IdenticalResults ==
    /\ \A t, u \in Triggers :
         Finished(t) /\ Finished(u) =>
            chUp[t] = chUp[u] /\ chSamples[t] = chSamples[u]
    /\ \A t \in Triggers : \A r \in upstream :
         Finished(t) =>
            chUp[t] = SerialResult(r).up /\ chSamples[t] = SerialResult(r).samples

\* C8 witness: every trigger has completed a cycle on the same snapshot,
\* each with a count above zero.
C8_Witness ==
    \A t \in Triggers :
        /\ pc[t] = "done"
        /\ chUp[t] = <<1>>
        /\ \E s \in chSamples[t] : s.value > 0

Unsupported(u) == urlParse(u).err \/ urlParse(u).Scheme \notin {"http", "https"}

\* C9: with a URI whose scheme is neither http nor https, NewExporter fails
\* and main stops before registering or listening: no trigger ever starts,
\* nothing is fetched or published; a constructed exporter's fetch never
\* fails on the scheme.
C9_UnsupportedSchemeNeverServes ==
    /\ Unsupported(uri) =>
         /\ mainpc \in {"NewExporter", "fatal"}
         /\ \A t \in Triggers :
              pc[t] = "idle" /\ resp[t] = NoResp /\ chUp[t] = <<>>
         /\ \A e \in ExporterIds : mutex[e] = Unlocked
         /\ exporters = {} /\ vec = NoChildren
    /\ ~Unsupported(uri) => mainpc # "fatal"
    /\ \A t \in Triggers : err[t].kind \in {"nil", "transport", "status"}

\* C9 witness: main was started with an ftp URI and has stopped.
C9_Witness ==
    /\ uri = "ftp://example.com/members"
    /\ mainpc = "fatal"

\* C10: the fetch succeeds exactly when the GET completes with a status s,
\* 200 <= s < 300; any other status gives an error that carries s, and the
\* cycle publishes liveness 0.
C10_StatusRange ==
    \A t \in Triggers :
        resp[t] # NoResp =>
            /\ err[t] = NoErr <=>
                 (resp[t].net = "ok" /\ 200 <= resp[t].status /\ resp[t].status < 300)
            /\ (resp[t].net = "ok" /\ err[t] # NoErr) =>
                 err[t] = [kind |-> "status", code |-> resp[t].status]
            /\ (Published(t) /\ err[t] # NoErr) => chUp[t] = <<0>>
            /\ (Published(t) /\ err[t] = NoErr) => chUp[t] = <<1>>

\* C10 witness: a cycle whose GET was answered with status 300 has
\* published liveness 0.
C10_Witness ==
    \E t \in Triggers :
        /\ Published(t)
        /\ resp[t].status = 300
        /\ err[t].code = 300
        /\ chUp[t] = <<0>>

(* C11: what a cycle publishes is a function of that cycle's own fetch
   outcome and payload: the liveness value and the status samples it sends
   are those a cycle would send that started from nothing and met the same
   response, whatever earlier cycles wrote, also when the fetch fails. *)
C11_OwnOutcomeOnly ==
    \A t \in Triggers :
        Published(t) =>
            /\ chUp[t] = SerialResult(resp[t]).up
            /\ chSamples[t] = SerialResult(resp[t]).samples

\* a cycle whose fetch failed publishes after a cycle that had published
\* liveness 1 and a positive count
C11_Witness ==
    \E t, u \in Triggers :
        /\ Published(t)
        /\ fetchHTTP(resp[t]).err # NoErr
        /\ chUp[t] = <<0>> /\ chSamples[t] = {}
        /\ pc[u] = "done"
        /\ failed[u] = ""
        /\ chUp[u] = <<1>>
        /\ ValueOf(chSamples[u], "Up") > 0

IsPrefix(s, q) == Len(s) <= Len(q) /\ SubSeq(q, 1, Len(s)) = s

\* the steps of a Collect call whose fetch fails
TraceFetchFailed ==
    <<"Lock", "resetMetrics", "fetch", "up.Set(0)",
      "ch <- e.up", "collectMetrics", "Unlock">>

\* the steps of a Collect call whose body cannot be read
TraceReadFailed ==
    <<"Lock", "resetMetrics", "fetch", "up.Set(1)", "ReadAll", "Close",
      "ch <- e.up", "collectMetrics", "Unlock">>

\* the steps of a Collect call that reads a body and aggregates it
TraceAggregated ==
    <<"Lock", "resetMetrics", "fetch", "up.Set(1)", "ReadAll",
      "exportJsonFields", "Close", "ch <- e.up", "collectMetrics", "Unlock">>

(* C12: every cycle performs its steps in one fixed order, each once:
   lock, reset, one fetch (never a second one), set liveness, aggregate when
   a body was read, send the liveness gauge, send the status samples, unlock.
   What a call has done so far is always the beginning of one of the three
   step sequences, a finished call has done the whole sequence that belongs
   to its outcome, and status samples are on the channel only behind the
   liveness gauge. *)
C12_FixedStepOrder ==
    \A t \in Triggers :
        /\ \/ IsPrefix(log[t], TraceFetchFailed)
           \/ IsPrefix(log[t], TraceReadFailed)
           \/ IsPrefix(log[t], TraceAggregated)
        /\ pc[t] = "done" =>
               log[t] = CASE failed[t] = "fetch" -> TraceFetchFailed
                          [] failed[t] = "read" -> TraceReadFailed
                          [] OTHER -> TraceAggregated
        /\ pc[t] = "idle" => log[t] = <<>>
        /\ chSamples[t] # {} => Len(chUp[t]) = 1
        /\ Len(chUp[t]) <= 1

\* one call has finished the aggregating sequence with samples behind the
\* gauge while another call, whose fetch failed, is about to send its gauge
C12_Witness ==
    \E t, u \in Triggers :
        /\ pc[t] = "done"
        /\ log[t] = TraceAggregated
        /\ chUp[t] = <<1>> /\ chSamples[t] # {}
        /\ pc[u] = "sendUp"
        /\ log[u] = SubSeq(TraceFetchFailed, 1, 4)

\* a process in which NewExporter has been called twice and both Exporters
\* are served; both hold the package's serverMetrics
InitTwo ==
    /\ uri = "http://localhost:19999/members"
    /\ NewExporter(uri)
    /\ upstream = Responses
    /\ mainpc = "serving"
    /\ exporters = ExporterIds
    /\ InitProgram

NextTwo == \E t \in Triggers : Step(t)

SpecTwo == InitTwo /\ [][NextTwo]_vars

(* C13: the collector state (liveness gauge and status counters) belongs to
   one collector alone: while a trigger holds an Exporter's lock, the
   counters and that Exporter's gauge change only by steps of that trigger,
   also when more than one Exporter has been constructed. *)
C13_Original ==
    [][\A t \in Triggers :
           (InCycle(t) /\ pc'[t] = pc[t]) =>
               /\ vec' = vec
               /\ up'[target[t]] = up[target[t]]]_vars

(* C14: every response stream a fetch opens is closed exactly once before
   the cycle releases the lock, on every path: a non-2xx answer is closed
   inside the fetcher, an unreadable body, an undecodable body and a decoded
   body are closed when scrape returns. No cycle ends with an open stream,
   no stream is closed twice, and a fetch that produced no stream closes
   none. *)
C14_StreamClosedOnce ==
    \A t \in Triggers :
        /\ closes[t] <= 1
        /\ body[t] = "closed" <=> closes[t] = 1
        /\ Finished(t) => body[t] # "open"
        /\ Published(t) =>
               /\ resp[t].net = "error" <=> body[t] = "none"
               /\ resp[t].net # "error" <=> closes[t] = 1
        /\ body[t] = "open" => InCycle(t) /\ mutex[target[t]] = t

\* a cycle whose stream was opened and could not be read has closed it once
\* when it has published
C14_Witness ==
    \E t \in Triggers :
        /\ Published(t)
        /\ resp[t].net # "error"
        /\ resp[t].status = 200
        /\ failed[t] = "read"
        /\ closes[t] = 1
        /\ body[t] = "closed"

(* C16: liveness is set to 1 as soon as the fetch has returned a stream,
   before the body is read; a cycle whose body read fails therefore ends
   with liveness 1, decodes nothing, aggregates nothing and sets none of the
   six status counters. *)
C16_ReadFailureKeepsUp ==
    \A t \in Triggers :
        /\ pc[t] \in {"ReadAll", "Unmarshal", "Close"} =>
               /\ up[target[t]] = 1
               /\ body[t] = "open"
        /\ (resp[t].read = "error" /\ pc[t] # "setUp") =>
               /\ up[target[t]] = 1
               /\ pc[t] # "Unmarshal"
               /\ vec = NoChildren
               /\ bytes[t] = NoPayload
               /\ \A i \in DOMAIN log[t] : log[t][i] # "exportJsonFields"
               /\ pc[t] \in {"Close", "sendUp", "collectMetrics", "Unlock"} =>
                      failed[t] = "read"
        /\ (Published(t) /\ resp[t].read = "error") =>
               /\ chUp[t] = <<1>>
               /\ chSamples[t] = {}

\* a cycle whose body read failed has published, after a cycle that had
\* published counts
C16_Witness ==
    \E t, u \in Triggers :
        /\ Published(t)
        /\ failed[t] = "read"
        /\ resp[t].read = "error"
        /\ chUp[t] = <<1>>
        /\ pc[u] = "done"
        /\ chSamples[u] # {}

\* the consumer of the trigger's channel takes the *Gauge it received and
\* reads its value (Metric.Write), at any time after the send
Gather(t) ==
    /\ chUp[t] # <<>>
    /\ readUp[t] = <<>>
    /\ readUp' = [readUp EXCEPT ![t] = <<up[target[t]]>>]
    /\ UNCHANGED <<envVars, mutex, up, vec, pc, target, resp, err, body,
                   closes, bytes, chUp, chSamples, failed, log>>

NextGather == Main \/ \E t \in Triggers : Step(t) \/ Gather(t)

SpecGather == Init /\ [][NextGather]_vars

(* C17: Collect sends the collector's one shared liveness gauge, not a copy,
   and for every trigger the liveness value its consumer reads is the value
   that trigger's own cycle set and sent, also when it is read after the
   cycle released the lock and another trigger's cycle with another fetch
   outcome has run. *)
C17_Original ==
    \A t \in Triggers : readUp[t] # <<>> => readUp[t] = chUp[t]

\* scheduling: a call that can take a step takes it (the steps inside the
\* locked section return: the GET and the body read are bounded by the
\* client's timeout, the sends are received by the registry), and a call
\* waiting in e.mutex.Lock() gets the lock when it is released again and
\* again (sync.Mutex hands the lock to starving waiters)
Fairness ==
    \A t \in Triggers :
        /\ WF_vars(ResetMetrics(t) \/ Fetch(t) \/ SetUp(t) \/ ReadAll(t)
                   \/ Decode(t) \/ Close(t) \/ SendUp(t) \/ CollectMetrics(t)
                   \/ Unlock(t))
        /\ SF_vars(Lock(t))

\* for progress the members of a snapshot do not matter: the upstream gives
\* any outcome of a GET, with snapshots that have no members
InitLive ==
    /\ uri = "http://localhost:19999/members"
    /\ upstream = {r \in Responses : r.payload.elems = <<>>}
    /\ InitMain

SpecLive == InitLive /\ [][Next]_vars /\ Fairness

(* C15: every cycle that takes the lock releases it, and under fair
   scheduling every trigger waiting for the lock gets to run its cycle to
   the end; inside the locked section only the fetch can block, and it
   returns within the timeout, so a cycle in the locked section always has
   its next step enabled. *)
C15_CyclesComplete ==
    \A t \in Triggers :
        /\ (pc[t] = "Lock") ~> (pc[t] = "done")
        /\ InCycle(t) ~> (pc[t] = "done" /\ mutex[target[t]] # t)
        /\ [](InCycle(t) => ENABLED Cycle(t))

\* a trigger waits for the lock that another trigger's cycle holds
C15_Witness ==
    \E t, u \in Triggers :
        /\ pc[t] = "Lock"
        /\ InCycle(u)
        /\ mutex[target[t]] = u
        /\ pc[u] = "fetch"

====
